---- MODULE Spec2Model ----
(***************************************************************************)
(* Deadline propagation middleware (package deadline): the server stage    *)
(* Middleware.ServeHTTP, the client stage Transport.RoundTrip, the shared  *)
(* config, and the parts of the Go runtime they rest on: time.Time with    *)
(* its zone, time.Parse / Time.Format under time.RFC3339Nano, http.Header  *)
(* and context.WithDeadline.  Access log middleware (package logging):     *)
(* Middleware.ServeHTTP with its wrappedWriter, filters and Leveler.       *)
(*                                                                         *)
(* Three specifications: Spec (one deadline stage, or a client stage and   *)
(* the server stage of its peer, one request at a time), LogSpec (the      *)
(* access log stage) and ConcSpec (several requests in flight through one  *)
(* server stage and one client stage).                                     *)
(*                                                                         *)
(* Instants are seconds and nanoseconds since the zero time.Time           *)
(* (0001-01-01T00:00:00Z).  The calendar is scaled: the clock starts       *)
(* StartSec seconds after the zero time, and the years 0000..9999 that a   *)
(* four-digit year can write are the local seconds MinLocal..MaxLocal.     *)
(***************************************************************************)
EXTENDS Integers, Sequences, FiniteSets, TLC

VARIABLES mw, tr, clock, req, cl, lg, inflight

vars == <<mw, tr, clock, req, cl, lg, inflight>>

----------------------------------------------------------------------------
(* Bounds of the model *)

StartSec == 100
MaxTicks == 2
BeforeZero == 50
MaxLocal == 5000

MinLocal == -BeforeZero

----------------------------------------------------------------------------
(* package time *)

NanosPerSec == 1000000000
SecPerMin == 60
FracWidth == 9

Time(s, n, o) == [sec |-> s, nsec |-> n, off |-> o]

Dur(s, n) == [s |-> s, ns |-> n]

NoDur == Dur(0, 0)

ZeroTime == Time(0, 0, 0)

IsZero(t) == t.sec = 0 /\ t.nsec = 0

After(t, u) == t.sec > u.sec \/ (t.sec = u.sec /\ t.nsec > u.nsec)

Equal(t, u) == t.sec = u.sec /\ t.nsec = u.nsec

Add(t, d) ==
    LET n == t.nsec + d.ns
    IN  Time(t.sec + d.s + (n \div NanosPerSec), n % NanosPerSec, t.off)

RECURSIVE Pow10(_)
Pow10(k) == IF k = 0 THEN 1 ELSE 10 * Pow10(k - 1)

RECURSIVE TrimZeros(_)
TrimZeros(ds) ==
    IF ds = <<>> THEN ds
    ELSE IF ds[Len(ds)] = 0 THEN TrimZeros(SubSeq(ds, 1, Len(ds) - 1))
    ELSE ds

(* appendNano under the layout ".999999999": nine digits, trailing zeros
   removed, nothing at all (no point either) when the fraction is zero *)
FormatFrac(n) ==
    TrimZeros([i \in 1..FracWidth |-> (n \div Pow10(FracWidth - i)) % 10])

RECURSIVE DigitsValue(_)
DigitsValue(ds) ==
    IF ds = <<>> THEN 0
    ELSE 10 * DigitsValue(SubSeq(ds, 1, Len(ds) - 1)) + ds[Len(ds)]

(* parseNanoseconds: any number of digits is taken, those after the ninth
   are dropped, fewer than nine are scaled up *)
ParseFrac(ds) ==
    LET kept == IF Len(ds) > FracWidth THEN SubSeq(ds, 1, FracWidth) ELSE ds
    IN  DigitsValue(kept) * Pow10(FracWidth - Len(kept))

(* the zone of layout "Z07:00" is written in whole minutes, the offset
   divided by 60 rounding toward zero *)
ZoneMinutes(off) ==
    IF off >= 0 THEN off \div SecPerMin ELSE -((-off) \div SecPerMin)

(* A header value.  kind "ts" is text of the shape
   <date>T<time>[.<digits>](Z|+hh:mm|-hh:mm): local is the date and time
   of day it writes (as seconds), frac the digits after the point, zulu
   whether the zone is the letter Z, zmin the zone in minutes.  kind
   "empty" is the empty string, kind "junk" any other text. *)
Str(k, l, f, z, m) == [kind |-> k, local |-> l, frac |-> f, zulu |-> z, zmin |-> m]

EmptyStr == Str("empty", 0, <<>>, TRUE, 0)

JunkStr == Str("junk", 0, <<>>, TRUE, 0)

RFC3339Nano(l, f, z, m) == Str("ts", l, f, z, m)

(* Time.Format(time.RFC3339Nano) *)
Format(t) ==
    RFC3339Nano(t.sec + t.off, FormatFrac(t.nsec), t.off = 0, ZoneMinutes(t.off))

(* Parse with the fraction required: text without a point and digits after
   the seconds does not parse *)
ParseFractionRequired(s) ==
    IF s.kind = "ts" /\ s.frac # <<>> /\ s.local >= MinLocal /\ s.local <= MaxLocal
    THEN LET off == IF s.zulu THEN 0 ELSE s.zmin * SecPerMin
         IN  [ok |-> TRUE, t |-> Time(s.local - off, ParseFrac(s.frac), off)]
    ELSE [ok |-> FALSE, t |-> ZeroTime]

(* time.Parse(time.RFC3339Nano, s): err # nil gives ok = FALSE and the zero
   Time.  The year field is exactly four digits, so text whose date lies
   outside MinLocal..MaxLocal does not parse; the fraction is optional. *)
Parse(s) ==
    IF s.kind = "ts" /\ s.local >= MinLocal /\ s.local <= MaxLocal
    THEN LET off == IF s.zulu THEN 0 ELSE s.zmin * SecPerMin
         IN  [ok |-> TRUE, t |-> Time(s.local - off, ParseFrac(s.frac), off)]
    ELSE [ok |-> FALSE, t |-> ZeroTime]

----------------------------------------------------------------------------
(* net/http Header: a name maps to the list of its values *)

DefaultHeaderName == "Deadline"

(* The names a header map is indexed by.  The empty name is one a program
   can put into a Header; it is not a valid field name, so it never arrives
   from the network. *)
EmptyName == ""

HeaderNames == {DefaultHeaderName, "X-Stop-At", EmptyName}

WireNames == HeaderNames \ {EmptyName}

(* httpguts.ValidHeaderFieldName over the names of a Header *)
ValidFieldNames(h) == h[EmptyName] = <<>>

NoHeaders == [n \in HeaderNames |-> <<>>]

(* Header.Get: the first value of the name, "" when there is none *)
Get(h, name) == IF h[name] = <<>> THEN EmptyStr ELSE h[name][1]

(* Header.Add: appends to the values of the name *)
HeaderAdd(h, name, v) == [h EXCEPT ![name] = Append(@, v)]

----------------------------------------------------------------------------
(* config.go *)

Durations == {Dur(-1, 0), NoDur, Dur(1, 0), Dur(3, 0)}

NotBuilt ==
    [built |-> FALSE, headerName |-> DefaultHeaderName,
     defaultTimeout |-> NoDur, maxTimeout |-> NoDur]

newConfig ==
    [built |-> TRUE, headerName |-> DefaultHeaderName,
     defaultTimeout |-> NoDur, maxTimeout |-> NoDur]

WithMaxTimeout(t, c) == [c EXCEPT !.maxTimeout = t]

WithDefaultTimeout(t, c) == [c EXCEPT !.defaultTimeout = t]

WithHeaderName(name, c) == [c EXCEPT !.headerName = name]

(* An Option is tagged with the constructor that made it *)
Options ==
    [opt : {"WithMaxTimeout", "WithDefaultTimeout"}, t : Durations, name : {DefaultHeaderName}]
    \cup [opt : {"WithHeaderName"}, t : {NoDur}, name : HeaderNames]

ApplyOption(o, c) ==
    CASE o.opt = "WithMaxTimeout" -> WithMaxTimeout(o.t, c)
      [] o.opt = "WithDefaultTimeout" -> WithDefaultTimeout(o.t, c)
      [] o.opt = "WithHeaderName" -> WithHeaderName(o.name, c)

RECURSIVE ApplyOptions(_, _)
ApplyOptions(opts, c) ==
    IF opts = <<>> THEN c ELSE ApplyOptions(Tail(opts), ApplyOption(Head(opts), c))

MaxOpts == 3

OptionLists == UNION {[1..k -> Options] : k \in 0..MaxOpts}

(* Wrap and WrapClient: newConfig, then the options in order *)
Wrap(opts) == ApplyOptions(opts, newConfig)

(* c.Transport of the client handed to WrapClient: nil unless the caller
   set one *)
Transports == {"nil", "transport"}

(* the Transport embeds the client's RoundTripper as it is, and the config *)
WrapClient(rt, opts) ==
    [built |-> TRUE, RoundTripper |-> rt,
     headerName |-> ApplyOptions(opts, newConfig).headerName,
     defaultTimeout |-> ApplyOptions(opts, newConfig).defaultTimeout,
     maxTimeout |-> ApplyOptions(opts, newConfig).maxTimeout]

----------------------------------------------------------------------------
(* package context *)

(* What Context.Deadline() returns: (dl, has) *)
Ctx(h, d) == [has |-> h, dl |-> d]

Background == Ctx(FALSE, ZeroTime)

(* A context made by WithDeadline: err is Context.Err(), by is what set it
   ("expired": the deadline had passed at creation, "timer": the AfterFunc
   timer, "cancelFunc": the returned CancelFunc, "parent": the parent was
   cancelled), timer whether the timer is held, closes how many times Done
   went from open to closed. *)
NoDerived ==
    [made |-> FALSE, dl |-> ZeroTime, err |-> "nil", by |-> "none",
     timer |-> FALSE, closes |-> 0]

(* context.WithDeadline(parent, d) on a parent without a deadline, at
   instant now: a parent already cancelled cancels the child at once, a
   deadline already passed cancels it with DeadlineExceeded, otherwise the
   timer is started. *)
WithDeadline(parentDone, d, now) ==
    IF parentDone
    THEN [made |-> TRUE, dl |-> d, err |-> "Canceled", by |-> "parent",
          timer |-> FALSE, closes |-> 1]
    ELSE IF ~After(d, now)
    THEN [made |-> TRUE, dl |-> d, err |-> "DeadlineExceeded", by |-> "expired",
          timer |-> FALSE, closes |-> 1]
    ELSE [made |-> TRUE, dl |-> d, err |-> "nil", by |-> "none",
          timer |-> TRUE, closes |-> 0]

(* cancelCtx.cancel: the first call sets err, closes Done and stops the
   timer; every later call returns at once *)
Cancel(c, err, by) ==
    IF c.err # "nil" THEN c
    ELSE [c EXCEPT !.err = err, !.by = by, !.timer = FALSE, !.closes = @ + 1]

----------------------------------------------------------------------------
(* middleware.go: the server stage *)

(* HeaderDeadline with a value that does not parse taken as a deadline long
   past instead of as no deadline *)
HeaderDeadlineFailClosed(c, hdr) ==
    LET incomingDeadline == Get(hdr, c.headerName)
    IN  IF incomingDeadline = EmptyStr THEN ZeroTime
        ELSE IF Parse(incomingDeadline).ok THEN Parse(incomingDeadline).t
        ELSE Time(0, 1, 0)

(* lines 37-41: the deadline the inbound header gives, the zero Time when
   the header is absent, empty or does not parse *)
HeaderDeadline(c, hdr) ==
    LET incomingDeadline == Get(hdr, c.headerName)
    IN  IF incomingDeadline # EmptyStr /\ Parse(incomingDeadline).ok
        THEN Parse(incomingDeadline).t
        ELSE ZeroTime

(* ApplyDefault with maxTimeout standing in for a defaultTimeout that is
   not configured *)
ApplyDefaultOrMax(c, deadline, now) ==
    IF IsZero(deadline) /\ c.defaultTimeout # NoDur
    THEN Add(now, c.defaultTimeout)
    ELSE IF IsZero(deadline) /\ c.maxTimeout # NoDur
    THEN Add(now, c.maxTimeout)
    ELSE deadline

(* lines 43-45 *)
ApplyDefault(c, deadline, now) ==
    IF IsZero(deadline) /\ c.defaultTimeout # NoDur
    THEN Add(now, c.defaultTimeout)
    ELSE deadline

(* ClampMax with the comparison reversed: the later of the two is kept *)
ClampMaxReversed(c, deadline, now) ==
    IF c.maxTimeout # NoDur
    THEN LET maxDeadline == Add(now, c.maxTimeout)
         IN  IF After(maxDeadline, deadline) THEN maxDeadline ELSE deadline
    ELSE deadline

(* lines 47-53: the clamp to now + maxTimeout *)
ClampMax(c, deadline, now) ==
    IF c.maxTimeout # NoDur
    THEN LET maxDeadline == Add(now, c.maxTimeout)
         IN  IF After(deadline, maxDeadline) THEN maxDeadline ELSE deadline
    ELSE deadline

(* Resolve without the test of line 32: a deadline already on the context
   is overridden *)
ResolveOverriding(c, ctx, hdr, now) ==
    LET deadline == ApplyDefault(c, HeaderDeadline(c, hdr), now)
    IN  IF ~IsZero(deadline)
        THEN [install |-> TRUE, deadline |-> ClampMax(c, deadline, now)]
        ELSE [install |-> FALSE, deadline |-> ZeroTime]

(* lines 32-58: what ServeHTTP does to the request before calling the
   target.  install: a context was derived; deadline: its deadline. *)
Resolve(c, ctx, hdr, now) ==
    IF ctx.has
    THEN [install |-> FALSE, deadline |-> ZeroTime]
    ELSE LET deadline == ApplyDefault(c, HeaderDeadline(c, hdr), now)
         IN  IF ~IsZero(deadline)
             THEN [install |-> TRUE, deadline |-> ClampMax(c, deadline, now)]
             ELSE [install |-> FALSE, deadline |-> ZeroTime]

(* DeferredCancel left out: the CancelFunc is never called *)
DeferredCancelMissing(d) == d

(* line 55: defer cancel() *)
DeferredCancel(d) == IF d.made THEN Cancel(d, "Canceled", "cancelFunc") ELSE d

----------------------------------------------------------------------------
(* part_000: the client stage *)

(* lines 20-24: the context's deadline, else now + defaultTimeout, else the
   zero Time *)
Candidate(c, ctx, now) ==
    IF ctx.has THEN ctx.dl
    ELSE IF c.defaultTimeout # NoDur THEN Add(now, c.defaultTimeout)
    ELSE ZeroTime

(* ClientClamp left out: the candidate is sent as it is *)
ClientClampMissing(c, deadline, now) == deadline

(* lines 27-32 *)
ClientClamp(c, deadline, now) ==
    IF c.maxTimeout # NoDur
    THEN LET maxDeadline == Add(now, c.maxTimeout)
         IN  IF After(deadline, maxDeadline) THEN maxDeadline ELSE deadline
    ELSE deadline

(* lines 17-36: add tells whether the header is added, deadline is the
   Time that is formatted into it *)
Outbound(c, ctx, now) ==
    LET deadline == Candidate(c, ctx, now)
    IN  IF ~IsZero(deadline)
        THEN [add |-> TRUE, deadline |-> ClientClamp(c, deadline, now)]
        ELSE [add |-> FALSE, deadline |-> ZeroTime]

----------------------------------------------------------------------------
(* logging/middleware.go: the access log stage *)

(* A ServeMux pattern "[METHOD ]/seg/seg": method "" is a pattern without
   a method, the segment Wild a wildcard.  EmptyPattern is the string "". *)
Pattern(m, p) == [method |-> m, path |-> p]

EmptyPattern == Pattern("", <<>>)

Wild == "{thing}"

Methods == {"GET", "POST"}

(* r.URL.Path, by its segments: /healthz, /foo, /foo/bar *)
Paths == {<<"healthz">>, <<"foo">>, <<"foo", "bar">>}

(* /healthz, GET /foo/{thing}, POST /foo/{thing} *)
Patterns ==
    {Pattern("", <<"healthz">>),
     Pattern("GET", <<"foo", Wild>>),
     Pattern("POST", <<"foo", Wild>>)}

Matches(p, method, path) ==
    /\ p.method \in {"", method}
    /\ Len(p.path) = Len(path)
    /\ \A i \in 1..Len(path) : p.path[i] \in {Wild, path[i]}

(* ServeMux.Handler(r): the registered pattern that matches the request;
   when none does, "" and a handler that answers 405 if a pattern matches
   but for the method, 404 otherwise *)
MuxHandler(mux, method, path) ==
    IF \E p \in mux : Matches(p, method, path)
    THEN CHOOSE p \in mux : Matches(p, method, path)
    ELSE EmptyPattern

MuxError(mux, path) ==
    IF \E p \in mux : Matches(p, p.method, path) THEN 405 ELSE 404

(* The handler given to Wrap: a *http.ServeMux with its registered patterns,
   or any other http.Handler *)
Target(isMux, patterns) == [mux |-> isMux, patterns |-> patterns]

Targets == {Target(FALSE, {})} \cup {Target(TRUE, ps) : ps \in SUBSET Patterns}

(* A Leveler value is "default" (defaultLeveler), "nil" (a nil func) or
   "warn" (one of the caller's, which always gives Warn) *)

(* lines 34-39 *)
defaultLeveler(status) == IF status >= 500 THEN "ERROR" ELSE "INFO"

NoMiddleware ==
    [built |-> FALSE, target |-> Target(FALSE, {}), logger |-> "nil",
     leveler |-> "nil", filteredPaths |-> {}, filteredRoutes |-> {}]

(* lines 53-58 *)
NewMiddleware(h) ==
    [built |-> TRUE, target |-> h, logger |-> "nil", leveler |-> "default",
     filteredPaths |-> {}, filteredRoutes |-> {}]

WithLogger(l, m) == [m EXCEPT !.logger = l]

WithPathFilter(paths, m) == [m EXCEPT !.filteredPaths = @ \cup paths]

WithRouteFilter(routes, m) == [m EXCEPT !.filteredRoutes = @ \cup routes]

(* lines 155-159 *)
WithLeveler(fn, m) == [m EXCEPT !.leveler = fn]

LogOption(o, l, fn, paths, routes) ==
    [opt |-> o, l |-> l, fn |-> fn, paths |-> paths, routes |-> routes]

LogOptions ==
    {LogOption("WithLogger", l, "nil", {}, {}) : l \in {"nil", "logger"}}
    \cup {LogOption("WithLeveler", "nil", fn, {}, {}) : fn \in {"nil", "warn"}}
    \cup {LogOption("WithPathFilter", "nil", "nil", {p}, {}) :
            p \in {<<"healthz">>, <<"foo">>}}
    \cup {LogOption("WithRouteFilter", "nil", "nil", {}, {r}) :
            r \in Patterns \cup {EmptyPattern}}

ApplyLogOption(o, m) ==
    CASE o.opt = "WithLogger" -> WithLogger(o.l, m)
      [] o.opt = "WithLeveler" -> WithLeveler(o.fn, m)
      [] o.opt = "WithPathFilter" -> WithPathFilter(o.paths, m)
      [] o.opt = "WithRouteFilter" -> WithRouteFilter(o.routes, m)

RECURSIVE ApplyLogOptions(_, _)
ApplyLogOptions(opts, m) ==
    IF opts = <<>> THEN m
    ELSE ApplyLogOptions(Tail(opts), ApplyLogOption(Head(opts), m))

MaxLogOpts == 2

LogOptionLists == UNION {[1..k -> LogOptions] : k \in 0..MaxLogOpts}

(* lines 52-68: the options in order, then slog.Default() for a logger
   still nil *)
LoggingWrap(h, opts) ==
    LET m == ApplyLogOptions(opts, NewMiddleware(h))
    IN  IF m.logger = "nil" THEN [m EXCEPT !.logger = "default"] ELSE m

(* filterPath with the filtered path as a prefix of the request path *)
filterPathByPrefix(m, path) ==
    \E f \in m.filteredPaths :
        Len(f) <= Len(path) /\ SubSeq(path, 1, Len(f)) = f

(* lines 115-118 *)
filterPath(m, path) == path \in m.filteredPaths

(* lines 120-123 *)
filterRoute(m, route) == route \in m.filteredRoutes

(* line 78 *)
Suppress(m, path, route) ==
    filterPath(m, path) \/ (route # EmptyPattern /\ filterRoute(m, route))

(* A slog.Record, as far as it is looked at: its level and the attribute
   http.status_code *)
Record(level, status) == [level |-> level, status |-> status]

(* lines 77-104, the deferred function: returns at once for a filtered
   request, else logs one record at level m.leveler(ww.status); the call of
   a nil Leveler panics before LogAttrs is reached *)
Deferred(m, path, route, status) ==
    IF Suppress(m, path, route)
    THEN [outcome |-> "suppressed", records |-> <<>>]
    ELSE IF m.leveler = "nil"
    THEN [outcome |-> "panicked", records |-> <<>>]
    ELSE [outcome |-> "logged",
          records |-> <<Record(IF m.leveler = "default"
                               THEN defaultLeveler(status) ELSE "WARN",
                               status)>>]

(* wrappedWriter.WriteHeader, lines 18-21: status is what ww.status
   becomes, sent what the ResponseWriter below has sent as the response's
   status (it sends the first one and ignores the later ones) *)
WriteHeader(w, code) ==
    [status |-> code, sent |-> IF w.sent = 0 THEN code ELSE w.sent]

(* wrappedWriter.Write, lines 23-28; the ResponseWriter below sends 200
   when no status was sent before the body *)
Write(w) ==
    [status |-> IF w.status = 0 THEN 200 ELSE w.status,
     sent |-> IF w.sent = 0 THEN 200 ELSE w.sent]

(* Status codes a handler passes to WriteHeader *)
Codes == {404, 499, 500}

MaxCalls == 2

(* m: the Middleware; method, path: the request; route: the variable
   route of ServeHTTP; script: 0 for a handler that may do anything, else
   the status the mux's own error handler answers; status: ww.status; sent:
   the status sent to the client, 0 before any; calls: how many WriteHeader
   and Write calls the handler has made; records: what the logger has got *)
IdleLog(m) ==
    [m |-> m, pc |-> "idle", method |-> "GET", path |-> <<"healthz">>,
     route |-> EmptyPattern, script |-> 0, status |-> 0, sent |-> 0,
     calls |-> 0, exit |-> "none", outcome |-> "none", records |-> <<>>]

NoLog == IdleLog(NoMiddleware)

----------------------------------------------------------------------------
(* Requests in flight together through one server stage and one client
   stage: each runs ServeHTTP or RoundTrip on its own goroutine, with its
   own request and its own locals *)

MaxRequests == 2

Flights == 1..MaxRequests

(* kind: "server" in ServeHTTP, "client" in RoundTrip; hdr, ctx: the
   request's header and context deadline; at: the instant the request read
   the clock; now: its local now; has, deadline: the deadline handed on (to
   the target in its context, to the transport in the header out) *)
IdleFlight ==
    [pc |-> "idle", kind |-> "server", hdr |-> NoHeaders, ctx |-> Background,
     at |-> ZeroTime, now |-> ZeroTime, has |-> FALSE, deadline |-> ZeroTime,
     out |-> NoHeaders]

NoFlights == [i \in Flights |-> IdleFlight]

----------------------------------------------------------------------------
(* The state *)

(* time.Now() is in the zone Local, here one hour east of UTC *)
LocalOffset == 60 * SecPerMin

HalfSecond == Dur(0, NanosPerSec \div 2)

Ticks(t) == (t.sec - StartSec) * 2 + (IF t.nsec = 0 THEN 0 ELSE 1)

(* mw: the config of the server stage (built = FALSE: none in this process)
   tr: the client stage, its config and the RoundTripper it embeds
   clock: what time.Now() returns
   req: the request in ServeHTTP
   cl: the call in RoundTrip
   lg: the access log stage and its request (LogSpec)
   inflight: the requests in flight together (ConcSpec) *)

(* What a RoundTripper returns: the response and the error *)
Result(resp, err) == [resp |-> resp, err |-> err]

NoResult == Result("none", "none")

Results == {Result("response", "nil"), Result("nil", "no response")}

IdleReq ==
    [pc |-> "idle", hdr |-> NoHeaders, ctx |-> Background, parentDone |-> FALSE,
     now |-> ZeroTime, nextCtx |-> Background, nextHdr |-> NoHeaders,
     copied |-> FALSE, calls |-> 0, wrote |-> FALSE, derived |-> NoDerived,
     fromWire |-> FALSE, sent |-> Ctx(FALSE, ZeroTime)]

IdleCall ==
    [pc |-> "idle", ctx |-> Background, hdr |-> NoHeaders, now |-> ZeroTime,
     out |-> NoHeaders, added |-> FALSE, deadline |-> ZeroTime, calls |-> 0,
     inner |-> NoResult, ret |-> NoResult]

(* Header values a peer may send *)
InboundValues ==
    {EmptyStr, JunkStr,
     RFC3339Nano(0, <<>>, TRUE, 0),
     RFC3339Nano(LocalOffset, <<>>, FALSE, ZoneMinutes(LocalOffset)),
     RFC3339Nano(-1, <<>>, TRUE, 0),
     RFC3339Nano(StartSec - 1, <<>>, TRUE, 0),
     RFC3339Nano(StartSec, <<5>>, TRUE, 0),
     RFC3339Nano(StartSec + 1 + LocalOffset, <<1, 2, 3, 4, 5, 6, 7, 8, 9>>, FALSE,
                 ZoneMinutes(LocalOffset)),
     RFC3339Nano(StartSec + 10, <<>>, TRUE, 0)}

InboundHeaders ==
    {NoHeaders} \cup
    {HeaderAdd(NoHeaders, n, v) : n \in WireNames, v \in InboundValues}

(* Deadlines a context may carry: any Time, in any zone *)
Deadlines ==
    {ZeroTime,
     Time(StartSec - 1, 0, 0),
     Time(StartSec, NanosPerSec \div 2, LocalOffset),
     Time(StartSec + 1, 120000000, 0),
     Time(StartSec + 10, 0, LocalOffset),
     Time(StartSec + 2, 0, SecPerMin \div 2),
     Time(MaxLocal + 1, 0, 0)}

ParentContexts ==
    {Background} \cup
    {Ctx(TRUE, d) : d \in {ZeroTime,
                           Time(StartSec, NanosPerSec \div 2, LocalOffset),
                           Time(StartSec + 10, 0, 0)}}

CallContexts == {Background} \cup {Ctx(TRUE, d) : d \in Deadlines}

(* Headers the caller's request may carry already *)
CallHeaders ==
    {NoHeaders,
     HeaderAdd(NoHeaders, DefaultHeaderName, RFC3339Nano(StartSec + 1, <<5>>, TRUE, 0))}

(* A process holds a server stage, a client stage, or (a hop) the client
   stage of a caller and the server stage of its peer, which agree on the
   header name and are joined by the client's transport *)
Init ==
    /\ mw \in {NotBuilt} \cup {Wrap(opts) : opts \in OptionLists}
    /\ tr \in {NotBuilt} \cup
               {WrapClient(rt, opts) : rt \in Transports, opts \in OptionLists}
    /\ mw.built \/ tr.built
    /\ mw.built /\ tr.built =>
           mw.headerName = tr.headerName /\ tr.RoundTripper = "transport"
    /\ clock = Time(StartSec, 0, LocalOffset)
    /\ req = IdleReq
    /\ cl = IdleCall
    /\ lg = NoLog
    /\ inflight = NoFlights

(* Middleware.ServeHTTP up to and including the call of the target *)
ServeHTTP(hdr, ctx, parentDone, fromWire, sent) ==
    /\ mw.built
    /\ req.pc = "idle"
    /\ LET now == clock
           r == Resolve(mw, ctx, hdr, now)
       IN  req' = [pc |-> "handling", hdr |-> hdr, ctx |-> ctx,
                   parentDone |-> parentDone, now |-> now,
                   nextCtx |-> IF r.install THEN Ctx(TRUE, r.deadline) ELSE ctx,
                   nextHdr |-> hdr,
                   copied |-> r.install,
                   calls |-> 1,
                   wrote |-> FALSE,
                   derived |-> IF r.install
                               THEN WithDeadline(parentDone, r.deadline, now)
                               ELSE NoDerived,
                   fromWire |-> fromWire, sent |-> sent]
    /\ UNCHANGED <<mw, tr, clock>>

(* a request from any peer, in a process that has no client stage *)
ServeInbound ==
    /\ ~tr.built
    /\ \E hdr \in InboundHeaders, ctx \in ParentContexts, pd \in BOOLEAN :
         ServeHTTP(hdr, ctx, pd, FALSE, Ctx(FALSE, ZeroTime))
    /\ UNCHANGED <<cl, lg, inflight>>

(* the request the client stage handed to its transport arrives; the
   transport sends no request whose header has an invalid field name *)
ServeFromWire ==
    /\ tr.built
    /\ cl.pc = "sent"
    /\ ValidFieldNames(cl.out)
    /\ ServeHTTP(cl.out, Background, FALSE, TRUE, Ctx(cl.added, cl.deadline))
    /\ cl' = [cl EXCEPT !.pc = "delivered"]
    /\ UNCHANGED <<lg, inflight>>

(* the timer of the derived context fires, no earlier than its deadline *)
TimerFire ==
    /\ req.pc = "handling"
    /\ req.derived.timer
    /\ ~After(req.derived.dl, clock)
    /\ req' = [req EXCEPT !.derived = Cancel(@, "DeadlineExceeded", "timer")]
    /\ UNCHANGED <<mw, tr, clock, cl, lg, inflight>>

(* the request's own context is cancelled (the peer went away) *)
ParentCancel ==
    /\ req.pc = "handling"
    /\ ~req.parentDone
    /\ req' = [req EXCEPT !.parentDone = TRUE,
                          !.derived = IF @.made THEN Cancel(@, "Canceled", "parent") ELSE @]
    /\ UNCHANGED <<mw, tr, clock, cl, lg, inflight>>

(* the target returns, the deferred cancel runs, ServeHTTP returns *)
Return ==
    /\ req.pc = "handling"
    /\ req' = [req EXCEPT !.pc = "returned", !.derived = DeferredCancel(@)]
    /\ UNCHANGED <<mw, tr, clock, cl, lg, inflight>>

(* the target panics, the deferred cancel runs, the panic leaves ServeHTTP *)
Panic ==
    /\ req.pc = "handling"
    /\ req' = [req EXCEPT !.pc = "panicked", !.derived = DeferredCancel(@)]
    /\ UNCHANGED <<mw, tr, clock, cl, lg, inflight>>

(* the next request *)
Finish ==
    /\ req.pc \in {"returned", "panicked"}
    /\ req' = IdleReq
    /\ UNCHANGED <<mw, tr, clock, cl, lg, inflight>>

(* line 36, the call t.RoundTripper.RoundTrip(r): a method call on the nil
   interface value panics, nothing is called *)
Delegate(rt) ==
    IF rt = "nil" THEN [pc |-> "panicked", calls |-> 0]
    ELSE [pc |-> "sent", calls |-> 1]

(* Transport.RoundTrip up to and including the call of the RoundTripper; out
   is the header of the request when line 36 is reached *)
RoundTrip(ctx, hdr) ==
    /\ tr.built
    /\ cl.pc = "idle"
    /\ LET now == clock
           o == Outbound(tr, ctx, now)
           d == Delegate(tr.RoundTripper)
       IN  cl' = [pc |-> d.pc, ctx |-> ctx, hdr |-> hdr, now |-> now,
                  out |-> IF o.add
                          THEN HeaderAdd(hdr, tr.headerName, Format(o.deadline))
                          ELSE hdr,
                  added |-> o.add, deadline |-> o.deadline, calls |-> d.calls,
                  inner |-> NoResult, ret |-> NoResult]
    /\ UNCHANGED <<mw, tr, clock, req, lg, inflight>>

Call == \E ctx \in CallContexts, hdr \in CallHeaders : RoundTrip(ctx, hdr)

(* line 36, the return: the RoundTripper's answer is RoundTrip's.  In a hop
   the answer comes after the peer has served the request, or is the
   transport's error for a request it would not send. *)
CallDone ==
    /\ \/ cl.pc = "sent" /\ ~mw.built
       \/ cl.pc = "sent" /\ ~ValidFieldNames(cl.out)
       \/ cl.pc = "delivered" /\ req.pc = "idle"
    /\ \E r \in Results :
         /\ (mw.built /\ ~ValidFieldNames(cl.out)) => r.err # "nil"
         /\ cl' = [cl EXCEPT !.pc = "returned", !.inner = r, !.ret = r]
    /\ UNCHANGED <<mw, tr, clock, req, lg, inflight>>

(* the next call *)
CallFinish ==
    /\ cl.pc \in {"returned", "panicked"}
    /\ cl' = IdleCall
    /\ UNCHANGED <<mw, tr, clock, req, lg, inflight>>

Tick ==
    /\ Ticks(clock) < MaxTicks
    /\ clock' = Add(clock, HalfSecond)
    /\ UNCHANGED <<mw, tr, req, cl, lg, inflight>>

Next ==
    \/ ServeInbound
    \/ ServeFromWire
    \/ TimerFire
    \/ ParentCancel
    \/ Return
    \/ Panic
    \/ Finish
    \/ Call
    \/ CallDone
    \/ CallFinish
    \/ Tick

Spec == Init /\ [][Next]_vars

----------------------------------------------------------------------------
(* The access log stage *)

LogInit ==
    /\ mw = NotBuilt
    /\ tr = NotBuilt
    /\ clock = Time(StartSec, 0, LocalOffset)
    /\ req = IdleReq
    /\ cl = IdleCall
    /\ inflight = NoFlights
    /\ lg \in {IdleLog(LoggingWrap(h, opts)) : h \in Targets, opts \in LogOptionLists}

(* Middleware.ServeHTTP, lines 71-75 and 106-111, up to the call of the
   handler *)
LogServeHTTP(method, path) ==
    /\ lg.pc = "idle"
    /\ LET h == lg.m.target
           route == IF h.mux THEN MuxHandler(h.patterns, method, path)
                    ELSE EmptyPattern
       IN  lg' = [IdleLog(lg.m) EXCEPT
                    !.pc = "handling", !.method = method, !.path = path,
                    !.route = route,
                    !.script = IF h.mux /\ route = EmptyPattern
                               THEN MuxError(h.patterns, path) ELSE 0]
    /\ UNCHANGED <<mw, tr, clock, req, cl, inflight>>

LogServe == \E method \in Methods, path \in Paths : LogServeHTTP(method, path)

(* the handler calls ww.WriteHeader(code); the mux's error handler does so
   once, first *)
HandlerWriteHeader ==
    /\ lg.pc = "handling"
    /\ lg.calls < MaxCalls
    /\ \E code \in Codes \cup {404, 405} :
         /\ IF lg.script = 0 THEN code \in Codes
            ELSE lg.calls = 0 /\ code = lg.script
         /\ lg' = [lg EXCEPT !.status = WriteHeader(lg, code).status,
                             !.sent = WriteHeader(lg, code).sent,
                             !.calls = @ + 1]
    /\ UNCHANGED <<mw, tr, clock, req, cl, inflight>>

(* the handler calls ww.Write(data); the mux's error handler does so once,
   after WriteHeader *)
HandlerWrite ==
    /\ lg.pc = "handling"
    /\ lg.calls < MaxCalls
    /\ lg.script # 0 => lg.calls = 1
    /\ lg' = [lg EXCEPT !.status = Write(lg).status, !.sent = Write(lg).sent,
                        !.calls = @ + 1]
    /\ UNCHANGED <<mw, tr, clock, req, cl, inflight>>

(* the handler is left, the deferred function runs, ServeHTTP is left *)
Exit(how) ==
    LET d == Deferred(lg.m, lg.path, lg.route, lg.status)
    IN  lg' = [lg EXCEPT !.pc = "done", !.exit = how, !.outcome = d.outcome,
                         !.records = d.records]

HandlerReturn ==
    /\ lg.pc = "handling"
    /\ lg.script # 0 => lg.calls = 2
    /\ Exit("return")
    /\ UNCHANGED <<mw, tr, clock, req, cl, inflight>>

HandlerPanic ==
    /\ lg.pc = "handling"
    /\ lg.script = 0
    /\ Exit("panic")
    /\ UNCHANGED <<mw, tr, clock, req, cl, inflight>>

(* the next request *)
LogFinish ==
    /\ lg.pc = "done"
    /\ lg' = IdleLog(lg.m)
    /\ UNCHANGED <<mw, tr, clock, req, cl, inflight>>

LogNext ==
    \/ LogServe
    \/ HandlerWriteHeader
    \/ HandlerWrite
    \/ HandlerReturn
    \/ HandlerPanic
    \/ LogFinish

LogSpec == LogInit /\ [][LogNext]_vars

----------------------------------------------------------------------------
(* Requests in flight together *)

MaxConcTicks == 1

(* The options the two stages are built with *)
ConcOptionLists ==
    {<<>>,
     <<[opt |-> "WithDefaultTimeout", t |-> Dur(1, 0), name |-> DefaultHeaderName]>>,
     <<[opt |-> "WithMaxTimeout", t |-> Dur(1, 0), name |-> DefaultHeaderName]>>,
     <<[opt |-> "WithDefaultTimeout", t |-> Dur(3, 0), name |-> DefaultHeaderName],
       [opt |-> "WithMaxTimeout", t |-> Dur(1, 0), name |-> DefaultHeaderName]>>,
     <<[opt |-> "WithHeaderName", t |-> NoDur, name |-> "X-Stop-At"]>>}

ConcHeaders ==
    {NoHeaders,
     HeaderAdd(NoHeaders, DefaultHeaderName, RFC3339Nano(StartSec + 10, <<>>, TRUE, 0))}

ConcContexts == {Background, Ctx(TRUE, Time(StartSec + 1, NanosPerSec \div 2, 0))}

ConcInit ==
    /\ \E opts \in ConcOptionLists :
         mw = Wrap(opts) /\ tr = WrapClient("transport", opts)
    /\ clock = Time(StartSec, 0, LocalOffset)
    /\ req = IdleReq
    /\ cl = IdleCall
    /\ lg = NoLog
    /\ inflight = NoFlights

(* Now with the instant another request in flight has read, as if now were
   kept in the stage and shared *)
NowShared(i) ==
    LET others == {j \in Flights : j # i /\ inflight[j].pc # "idle"}
    IN  IF others # {} THEN inflight[CHOOSE j \in others : TRUE].now ELSE clock

(* middleware.go line 35, part_000 line 18: now := time.Now(), a local of
   the call *)
Now(i) == clock

(* request i enters its stage and reads the clock *)
Enter(i, kind, hdr, ctx) ==
    /\ inflight[i].pc = "idle"
    /\ inflight' = [inflight EXCEPT ![i] =
                      [IdleFlight EXCEPT !.pc = "entered", !.kind = kind,
                                         !.hdr = hdr, !.ctx = ctx,
                                         !.at = clock, !.now = Now(i)]]
    /\ UNCHANGED <<mw, tr, clock, req, cl, lg>>

Arrive ==
    \E i \in Flights, kind \in {"server", "client"},
       hdr \in ConcHeaders, ctx \in ConcContexts : Enter(i, kind, hdr, ctx)

(* request i resolves its deadline and hands it on: ServeHTTP lines 37-60,
   RoundTrip lines 20-36 *)
Deliver(i) ==
    /\ inflight[i].pc = "entered"
    /\ LET f == inflight[i]
           r == Resolve(mw, f.ctx, f.hdr, f.now)
           o == Outbound(tr, f.ctx, f.now)
       IN  inflight' = [inflight EXCEPT ![i] =
             IF f.kind = "server"
             THEN [f EXCEPT !.pc = "delivered",
                            !.has = r.install \/ f.ctx.has,
                            !.deadline = IF r.install THEN r.deadline ELSE f.ctx.dl,
                            !.out = f.hdr]
             ELSE [f EXCEPT !.pc = "delivered",
                            !.has = o.add,
                            !.deadline = o.deadline,
                            !.out = IF o.add
                                    THEN HeaderAdd(f.hdr, tr.headerName,
                                                   Format(o.deadline))
                                    ELSE f.hdr]]
    /\ UNCHANGED <<mw, tr, clock, req, cl, lg>>

HandOn == \E i \in Flights : Deliver(i)

(* the target or the transport returns, the stage is left *)
Leave ==
    /\ \E i \in Flights :
         /\ inflight[i].pc = "delivered"
         /\ inflight' = [inflight EXCEPT ![i] = IdleFlight]
    /\ UNCHANGED <<mw, tr, clock, req, cl, lg>>

ConcTick ==
    /\ Ticks(clock) < MaxConcTicks
    /\ clock' = Add(clock, HalfSecond)
    /\ UNCHANGED <<mw, tr, req, cl, lg, inflight>>

ConcNext ==
    \/ Arrive
    \/ HandOn
    \/ Leave
    \/ ConcTick

ConcSpec == ConcInit /\ [][ConcNext]_vars

----------------------------------------------------------------------------
(* Properties *)

(* The request is inside ServeHTTP or has left it *)
Entered == req.pc # "idle"

(* The inbound value ServeHTTP reads, and whether a value is there *)
Incoming == Get(req.hdr, mw.headerName)

HasIncoming == req.hdr[mw.headerName] # <<>>

(* The earlier of two instants *)
Earlier(t, u) == IF After(t, u) THEN u ELSE t

(* C1: a request whose context already carries a deadline reaches the target
   with that same context deadline, whatever the header and the config are,
   and no context is derived for it. *)
C1_ExistingDeadlineUntouched ==
    (Entered /\ req.ctx.has) =>
        /\ req.nextCtx = req.ctx
        /\ ~req.derived.made
        /\ ~req.copied

C1_Witness ==
    /\ req.pc = "handling"
    /\ req.ctx.has
    /\ Parse(Incoming).ok
    /\ After(req.ctx.dl, Parse(Incoming).t)
    /\ mw.defaultTimeout # NoDur
    /\ mw.maxTimeout # NoDur
    /\ req.nextCtx = req.ctx

(* C2: with no deadline on the request context and no maxTimeout, a header
   value that parses to the instant T gives the target a context whose
   deadline is T, for every T and every defaultTimeout. *)
C2_HeaderDeadlineInstalled ==
    (Entered /\ ~req.ctx.has /\ mw.maxTimeout = NoDur /\ Parse(Incoming).ok) =>
        /\ req.nextCtx.has
        /\ Equal(req.nextCtx.dl, Parse(Incoming).t)

(* C3: with no deadline on the request context, a header value that parses
   to T and maxTimeout M # 0 give the target the deadline min(T, now + M). *)
C3_HeaderDeadlineClamped ==
    (Entered /\ ~req.ctx.has /\ mw.maxTimeout # NoDur /\ Parse(Incoming).ok) =>
        /\ req.nextCtx.has
        /\ Equal(req.nextCtx.dl,
                 Earlier(Parse(Incoming).t, Add(req.now, mw.maxTimeout)))

(* C4: with no header and no deadline on the request context, a
   defaultTimeout D # 0 installs now + D when maxTimeout is unset and
   min(now + D, now + M) when maxTimeout is M # 0. *)
C4_DefaultDeadline ==
    (Entered /\ ~req.ctx.has /\ ~HasIncoming /\ mw.defaultTimeout # NoDur) =>
        /\ req.nextCtx.has
        /\ req.derived.made
        /\ Equal(req.nextCtx.dl,
                 IF mw.maxTimeout = NoDur
                 THEN Add(req.now, mw.defaultTimeout)
                 ELSE Earlier(Add(req.now, mw.defaultTimeout),
                              Add(req.now, mw.maxTimeout)))

C4_Witness ==
    /\ req.pc = "handling"
    /\ ~req.ctx.has
    /\ ~HasIncoming
    /\ mw.defaultTimeout = Dur(3, 0)
    /\ mw.maxTimeout = Dur(1, 0)
    /\ Equal(req.nextCtx.dl, Add(req.now, Dur(1, 0)))

(* C5: with no header, no deadline on the request context and no
   defaultTimeout, the target receives the original request, its context
   without a deadline, whatever maxTimeout is. *)
C5_NothingInstalled ==
    (Entered /\ ~req.ctx.has /\ ~HasIncoming /\ mw.defaultTimeout = NoDur) =>
        /\ ~req.nextCtx.has
        /\ req.nextCtx = req.ctx
        /\ req.nextHdr = req.hdr
        /\ ~req.copied
        /\ ~req.derived.made

C5_Witness ==
    /\ req.pc = "handling"
    /\ ~req.ctx.has
    /\ ~HasIncoming
    /\ mw.defaultTimeout = NoDur
    /\ mw.maxTimeout # NoDur
    /\ ~req.nextCtx.has

(* C6: a header value that does not parse is handled as the same request
   without the header: the same deadline or none is installed, the target is
   called once, and the stage writes nothing. *)
C6_MalformedAsAbsent ==
    (Entered /\ HasIncoming /\ ~Parse(Incoming).ok) =>
        LET bare == [req.hdr EXCEPT ![mw.headerName] = <<>>]
            r == Resolve(mw, req.ctx, bare, req.now)
        IN  /\ req.copied = r.install
            /\ req.derived.made = r.install
            /\ req.nextCtx = (IF r.install THEN Ctx(TRUE, r.deadline) ELSE req.ctx)
            /\ r.install =>
                 Equal(r.deadline,
                       IF mw.maxTimeout = NoDur
                       THEN Add(req.now, mw.defaultTimeout)
                       ELSE Earlier(Add(req.now, mw.defaultTimeout),
                                    Add(req.now, mw.maxTimeout)))
            /\ r.install = (~req.ctx.has /\ mw.defaultTimeout # NoDur)
            /\ req.calls = 1
            /\ ~req.wrote

C6_Witness ==
    /\ req.pc = "handling"
    /\ Incoming = JunkStr
    /\ ~req.ctx.has
    /\ mw.defaultTimeout = Dur(3, 0)
    /\ mw.maxTimeout = Dur(1, 0)
    /\ req.nextCtx = Ctx(TRUE, Add(req.now, Dur(1, 0)))

(* The call is inside RoundTrip's transport or has been served *)
Called == cl.pc # "idle"

(* C7: the candidate is the calling context's deadline if it has one, else
   now + defaultTimeout if that is not zero; with a candidate the header
   headerName gets the encoding of min(candidate, now + maxTimeout), or of
   the candidate when maxTimeout is zero; without one the request reaches
   the transport as it was. *)
C7_OutboundHeader ==
    Called =>
        LET exists == cl.ctx.has \/ tr.defaultTimeout # NoDur
            candidate == IF cl.ctx.has THEN cl.ctx.dl
                         ELSE Add(cl.now, tr.defaultTimeout)
            effective == IF tr.maxTimeout # NoDur
                         THEN Earlier(candidate, Add(cl.now, tr.maxTimeout))
                         ELSE candidate
        IN  IF exists
            THEN cl.out = HeaderAdd(cl.hdr, tr.headerName, Format(effective))
            ELSE cl.out = cl.hdr

(* C8: a deadline D the client stage wrote into the header, read by a server
   stage with the same headerName, no maxTimeout and no deadline on the
   request context, is installed as the context deadline D. *)
C8_RoundTrip ==
    (/\ Entered
     /\ req.fromWire
     /\ req.sent.has
     /\ req.hdr[mw.headerName] = <<Format(req.sent.dl)>>
     /\ mw.headerName = tr.headerName
     /\ mw.maxTimeout = NoDur
     /\ ~req.ctx.has) =>
        /\ req.nextCtx.has
        /\ Equal(req.nextCtx.dl, req.sent.dl)

(* C9 as claimed: with maxTimeout M # 0, every deadline a stage hands on (the
   context deadline the target sees, the deadline the client stage puts in
   the header) is no later than now + M, whatever the header, the context
   deadline and defaultTimeout are.  Stated here for M > 0 only, so that
   what refutes it does not rest on a negative maxTimeout. *)
C9_MaxBoundsEveryDeadline ==
    /\ (Entered /\ After(Add(ZeroTime, mw.maxTimeout), ZeroTime) /\ req.nextCtx.has) =>
           ~After(req.nextCtx.dl, Add(req.now, mw.maxTimeout))
    /\ (Called /\ After(Add(ZeroTime, tr.maxTimeout), ZeroTime) /\ cl.added) =>
           ~After(cl.deadline, Add(cl.now, tr.maxTimeout))

(* C9 as amended: with maxTimeout M # 0, every deadline a stage resolves
   itself is no later than now + M: the deadline of the context the server
   stage derives (the request context had none), and the deadline the client
   stage formats into the header.  A deadline that was on the server's
   request context already is handed on as it is. *)
C9_MaxBoundsResolvedDeadline ==
    /\ (Entered /\ mw.maxTimeout # NoDur /\ req.derived.made) =>
           /\ req.nextCtx = Ctx(TRUE, req.derived.dl)
           /\ ~After(req.nextCtx.dl, Add(req.now, mw.maxTimeout))
    /\ (Entered /\ req.ctx.has) => req.nextCtx = req.ctx
    /\ (Called /\ tr.maxTimeout # NoDur /\ cl.added) =>
           /\ cl.out = HeaderAdd(cl.hdr, tr.headerName, Format(cl.deadline))
           /\ ~After(cl.deadline, Add(cl.now, tr.maxTimeout))

C9_Witness ==
    /\ cl.pc = "delivered"
    /\ cl.ctx = Ctx(TRUE, Time(StartSec + 10, 0, LocalOffset))
    /\ tr.maxTimeout = Dur(3, 0)
    /\ Equal(cl.deadline, Add(cl.now, Dur(3, 0)))
    /\ req.pc = "handling"
    /\ mw.maxTimeout = Dur(1, 0)
    /\ req.derived.made
    /\ Equal(req.nextCtx.dl, Add(req.now, Dur(1, 0)))

(* C10: the context the server stage derives is cancelled by the stage only
   once its deadline is reached or the target has left ServeHTTP; Done
   closes once; and when ServeHTTP has exited, by return or by panic, the
   context is cancelled and its timer released. *)
C10_CancelLifecycle ==
    req.derived.made =>
        /\ req.derived.by \in {"timer", "expired"} => ~After(req.derived.dl, clock)
        /\ req.derived.by = "cancelFunc" => req.pc \in {"returned", "panicked"}
        /\ (req.pc = "handling" /\ After(req.derived.dl, clock) /\ ~req.parentDone) =>
               /\ req.derived.err = "nil"
               /\ req.derived.timer
        /\ req.derived.closes = (IF req.derived.err = "nil" THEN 0 ELSE 1)
        /\ req.derived.err = "nil" <=> req.derived.by = "none"
        /\ req.pc \in {"returned", "panicked"} =>
               /\ req.derived.err # "nil"
               /\ ~req.derived.timer

C10_Witness ==
    /\ req.pc = "panicked"
    /\ req.derived.made
    /\ req.derived.by = "cancelFunc"
    /\ req.derived.err = "Canceled"
    /\ req.derived.closes = 1
    /\ After(req.derived.dl, clock)

(* C11: RoundTrip hands the request to the underlying transport exactly
   once, whatever transport (none included) the wrapped client had, returns
   that transport's response and error as they are, and does not fail
   itself. *)
C11_ClientTransparent ==
    Called =>
        /\ cl.pc # "panicked"
        /\ cl.calls = 1
        /\ cl.pc = "returned" => cl.ret = cl.inner

(* C12: after construction with any options, the headerName of either stage
   is not empty. *)
C12_HeaderNameNeverEmpty ==
    /\ mw.built => mw.headerName # EmptyName
    /\ tr.built => tr.headerName # EmptyName

(* A Duration below zero *)
Negative(d) == d.s < 0 \/ (d.s = 0 /\ d.ns < 0)

(* C13: after construction with any options, defaultTimeout and maxTimeout of
   either stage are not negative, so now + defaultTimeout and now +
   maxTimeout are never before now. *)
C13_TimeoutsNonNegative ==
    /\ mw.built =>
         /\ ~Negative(mw.defaultTimeout) /\ ~Negative(mw.maxTimeout)
         /\ ~After(clock, Add(clock, mw.defaultTimeout))
         /\ ~After(clock, Add(clock, mw.maxTimeout))
    /\ tr.built =>
         /\ ~Negative(tr.defaultTimeout) /\ ~Negative(tr.maxTimeout)
         /\ ~After(clock, Add(clock, tr.defaultTimeout))
         /\ ~After(clock, Add(clock, tr.maxTimeout))

(* The handler is a ServeMux and a pattern of it matches the request *)
Matched ==
    /\ lg.m.target.mux
    /\ \E p \in lg.m.target.patterns : Matches(p, lg.method, lg.path)

(* The request is one the filters name: its path is a filtered path, or the
   mux matched a pattern for it that is a filtered route *)
Filtered ==
    \/ lg.path \in lg.m.filteredPaths
    \/ /\ Matched
       /\ \E p \in lg.m.target.patterns :
            Matches(p, lg.method, lg.path) /\ p \in lg.m.filteredRoutes

(* C14: a request that is not filtered gets exactly one log record, emitted
   once the wrapped handler has finished, by return or by panic; nothing is
   emitted while the handler runs. *)
C14_OneRecordAfterHandler ==
    /\ lg.pc = "handling" => lg.records = <<>>
    /\ (lg.pc = "done" /\ ~Filtered) => Len(lg.records) = 1
    /\ (lg.pc = "done" /\ Filtered) => lg.records = <<>>

(* C15: the status in the log record is the first status the handler wrote,
   the one sent to the client, whatever WriteHeader and Write calls it made;
   200 when it wrote a body before any status. *)
C15_FirstStatusRecorded ==
    (lg.pc = "done" /\ lg.outcome = "logged" /\ lg.calls > 0) =>
        lg.records[1].status = lg.sent

(* C16: the record of a request is suppressed exactly when the request path
   equals a path given to WithPathFilter, or the handler is a ServeMux and
   the pattern it matched, method included, is one given to
   WithRouteFilter. *)
C16_SuppressedIffFiltered ==
    lg.pc = "done" => (lg.outcome = "suppressed" <=> Filtered)

C16_Witness ==
    /\ lg.pc = "done"
    /\ lg.outcome = "suppressed"
    /\ lg.method = "GET"
    /\ lg.path = <<"foo", "bar">>
    /\ lg.route = Pattern("GET", <<"foo", Wild>>)
    /\ lg.m.filteredRoutes = {Pattern("GET", <<"foo", Wild>>)}
    /\ lg.m.filteredPaths = {<<"foo">>}
    /\ Pattern("POST", <<"foo", Wild>>) \in lg.m.target.patterns

(* C17: the record of a request has the level leveler(status): of the
   Leveler given to WithLeveler, of the default one (Error from 500 on, Info
   below) when none was given or the one given was nil. *)
C17_LevelFromLeveler ==
    (lg.pc = "done" /\ lg.outcome # "suppressed") =>
        /\ Len(lg.records) = 1
        /\ lg.records[1].level =
             (IF lg.m.leveler = "warn" THEN "WARN"
              ELSE IF lg.records[1].status >= 500 THEN "ERROR" ELSE "INFO")

(* The deadline request i is to hand on, from its own header, context and
   the instant it read the clock *)
OwnDeadline(f) ==
    IF f.kind = "server"
    THEN LET r == Resolve(mw, f.ctx, f.hdr, f.at)
         IN  [has |-> r.install \/ f.ctx.has,
              deadline |-> IF r.install THEN r.deadline ELSE f.ctx.dl]
    ELSE LET o == Outbound(tr, f.ctx, f.at)
         IN  [has |-> o.add, deadline |-> o.deadline]

(* C18: with requests interleaved through one server stage and one client
   stage, no step writes the config of either stage, and the deadline handed
   on for a request is the one its own header, context and clock reading
   give, whatever the other requests in flight are. *)
C18_RequestsIndependent ==
    [][/\ mw' = mw
       /\ tr' = tr
       /\ \A i \in Flights :
            inflight'[i].pc = "delivered" =>
               /\ inflight'[i].has = OwnDeadline(inflight'[i]).has
               /\ inflight'[i].deadline = OwnDeadline(inflight'[i]).deadline
       /\ \A i, j \in Flights :
            (i # j /\ inflight'[i] # inflight[i]) => inflight'[j] = inflight[j]]_vars

C18_Witness ==
    /\ inflight[1].pc = "delivered"
    /\ inflight[2].pc = "delivered"
    /\ inflight[1].kind = "server"
    /\ inflight[2].kind = "server"
    /\ inflight[1].hdr = inflight[2].hdr
    /\ inflight[1].ctx = inflight[2].ctx
    /\ inflight[1].now # inflight[2].now
    /\ inflight[1].has /\ inflight[2].has
    /\ inflight[1].deadline # inflight[2].deadline

(* A header value in the second-precision profile of RFC 3339: a timestamp
   with no fraction, its year in 0000..9999 *)
SecondPrecision(v) ==
    v.kind = "ts" /\ v.frac = <<>> /\ v.local >= MinLocal /\ v.local <= MaxLocal

(* The instant such a value denotes, in its zone *)
Denoted(v) ==
    LET off == IF v.zulu THEN 0 ELSE v.zmin * SecPerMin
    IN  Time(v.local - off, 0, off)

(* The same timestamp with its fraction written out in nine digits *)
NineDigits(v) == [v EXCEPT !.frac = [i \in 1..FracWidth |-> 0]]

(* C19 as claimed: an inbound value in the second-precision profile does not
   parse and the request is handled as if the header were absent, so no
   deadline comes from the value. *)
C19_SecondPrecisionRejected ==
    (Entered /\ HasIncoming /\ SecondPrecision(Incoming)) =>
        LET bare == [req.hdr EXCEPT ![mw.headerName] = <<>>]
            r == Resolve(mw, req.ctx, bare, req.now)
        IN  /\ ~Parse(Incoming).ok
            /\ req.derived.made = r.install
            /\ req.nextCtx = (IF r.install THEN Ctx(TRUE, r.deadline) ELSE req.ctx)

(* C19 as amended: an inbound value in the second-precision profile parses,
   to the instant it denotes with no nanoseconds, and the request is handled
   exactly as with the same timestamp written with a nine-digit fraction. *)
C19_SecondPrecisionAccepted ==
    (Entered /\ HasIncoming /\ SecondPrecision(Incoming)) =>
        LET full == [req.hdr EXCEPT ![mw.headerName] =
                        <<NineDigits(Incoming)>> \o Tail(@)]
            r == Resolve(mw, req.ctx, full, req.now)
        IN  /\ Parse(Incoming).ok
            /\ Parse(Incoming).t = Denoted(Incoming)
            /\ Parse(NineDigits(Incoming)) = Parse(Incoming)
            /\ req.derived.made = r.install
            /\ req.nextCtx = (IF r.install THEN Ctx(TRUE, r.deadline) ELSE req.ctx)

C19_Witness ==
    /\ req.pc = "handling"
    /\ Incoming = RFC3339Nano(StartSec + 10, <<>>, TRUE, 0)
    /\ ~req.ctx.has
    /\ mw.defaultTimeout = NoDur
    /\ mw.maxTimeout = NoDur
    /\ req.derived.made
    /\ req.nextCtx = Ctx(TRUE, Time(StartSec + 10, 0, 0))

(* C20: whenever the client stage resolves a deadline D, the first value of
   the header headerName on the outgoing request, which is what a server
   stage reads, is the encoding of D, also when the request carried a value
   for that header before RoundTrip. *)
C20_FirstValueIsDeadline ==
    (Called /\ cl.added) => Get(cl.out, tr.headerName) = Format(cl.deadline)

====
